---- MODULE Spec2Model ----
(***************************************************************************)
(* simpledroid: conversion of PRONOM reports into a simplified DROID       *)
(* signature file (src/src/simpledroid/simpledroid.py).                    *)
(*                                                                         *)
(* Text is a sequence of one-character strings.  A DOM node is a record    *)
(* from tag name to the text of the first element with that tag, or to     *)
(* Missing (no such element) or NoChild (an element without a child).      *)
(* A call that can raise returns [exc, val]: exc = "" when it returned.     *)
(***************************************************************************)
EXTENDS Integers, Sequences, FiniteSets, TLC

VARIABLES
    pc,            \* "loop": in the for loop of process_pronom; "done"; "raised"
    report_list,   \* the reports read so far, in reading order
    formats,       \* process_pronom's list of Format records
    isc,           \* process_formats_and_save: one group of InternalSignature entries per format
    ffc,           \* process_formats_and_save: the FileFormat entries
    exc            \* the exception that escaped process_pronom, "" when none did

vars == <<pc, report_list, formats, isc, ffc, exc>>

\* ------------------------------------------------------------- bounds
MaxReports == 2   \* reports in one run
MaxExt == 1       \* ExternalSignature blocks of a report
MaxInt == 2       \* InternalSignature blocks of a report
MaxSeq == 2       \* ByteSequence blocks of an InternalSignature
MaxRel == 2       \* RelatedFormat blocks of a report
MaxLen == 3       \* characters of a raw ByteSequenceValue
MaxDigits == 2    \* digits of an Offset or MaxOffset
MaxMissing == 2   \* labels absent from a report
MaxSpaced == 4    \* characters of a raw ByteSequenceValue with spaces inside

\* ------------------------------------------------------------- Python values
None == <<"None">>
Missing == <<"#missing">>
NoChild == <<"#nochild">>

Ok(v) == [exc |-> "", val |-> v]
Raise(e) == [exc |-> e, val |-> None]

\* The first exception among the results of calls made in order.
RECURSIVE FirstExc(_)
FirstExc(rs) ==
    IF rs = <<>> THEN ""
    ELSE IF Head(rs).exc # "" THEN Head(rs).exc
    ELSE FirstExc(Tail(rs))

\* f"{x}": None is formatted as the text None.
fstr(x) == IF x = None THEN <<"N", "o", "n", "e">> ELSE x

\* ------------------------------------------------------------- str methods
RECURSIVE lstrip(_)
lstrip(s) == IF s # <<>> /\ Head(s) = " " THEN lstrip(Tail(s)) ELSE s

RECURSIVE rstrip(_)
rstrip(s) ==
    IF s # <<>> /\ s[Len(s)] = " " THEN rstrip(SubSeq(s, 1, Len(s) - 1)) ELSE s

strip(s) == rstrip(lstrip(s))

upper_char(c) ==
    CASE c = "a" -> "A" [] c = "b" -> "B" [] c = "c" -> "C"
      [] c = "d" -> "D" [] c = "e" -> "E" [] c = "f" -> "F"
      [] c = "m" -> "M" [] c = "p" -> "P" [] c = "x" -> "X"
      [] OTHER -> c

upper(s) == [i \in 1..Len(s) |-> upper_char(s[i])]

\* s.replace(c, new) for a one-character c.
RECURSIVE replace(_, _, _)
replace(s, c, new) ==
    IF s = <<>> THEN <<>>
    ELSE (IF Head(s) = c THEN new ELSE <<Head(s)>>) \o replace(Tail(s), c, new)

\* val in s
In(val, s) ==
    \E i \in 1..(Len(s) - Len(val) + 1) : SubSeq(s, i, i + Len(val) - 1) = val

startswith(s, prefix) ==
    Len(s) >= Len(prefix) /\ SubSeq(s, 1, Len(prefix)) = prefix

\* xml.sax.saxutils.escape
escape(data) ==
    replace(replace(replace(data, "&", <<"&", "a", "m", "p", ";">>),
                    "<", <<"&", "l", "t", ";">>),
            ">", <<"&", "g", "t", ";">>)

Digits == <<"0", "1", "2", "3", "4", "5", "6", "7", "8", "9">>

digit_val(c) == CHOOSE d \in 0..9 : Digits[d + 1] = c

\* int(s) for a text of decimal digits.
RECURSIVE int(_)
int(s) ==
    IF s = <<>> THEN 0
    ELSE int(SubSeq(s, 1, Len(s) - 1)) * 10 + digit_val(s[Len(s)])

\* str(n) for n >= 0.
RECURSIVE str(_)
str(n) ==
    IF n < 10 THEN <<Digits[n + 1]>>
    ELSE str(n \div 10) \o <<Digits[(n % 10) + 1]>>

\* ------------------------------------------------------------- constants
HexDigits ==
    {"0", "1", "2", "3", "4", "5", "6", "7", "8", "9",
     "a", "b", "c", "d", "e", "f", "A", "B", "C", "D", "E", "F"}

\* The character class of PRONOM_REGEX_ALLOWED.
PRONOM_REGEX_ALLOWED ==
    HexDigits \cup {"*", "[", "]", "?", "!", "&", "|", "(", ")", "{", "}", ":", "-"}

\* re.fullmatch(PRONOM_REGEX_ALLOWED, seq_value): one or more allowed characters.
valid_sig(seq_value) ==
    /\ Len(seq_value) >= 1
    /\ \A i \in 1..Len(seq_value) : seq_value[i] \in PRONOM_REGEX_ALLOWED

BOF == <<"B", "O", "F", "o", "f", "f", "s", "e", "t">>
EOF == <<"E", "O", "F", "o", "f", "f", "s", "e", "t">>
BOF_XML ==
    <<"A", "b", "s", "o", "l", "u", "t", "e", " ", "f", "r", "o", "m", " ", "B", "O", "F">>
EOF_XML ==
    <<"A", "b", "s", "o", "l", "u", "t", "e", " ", "f", "r", "o", "m", " ", "E", "O", "F">>
EXT ==
    <<"F", "i", "l", "e", " ", "e", "x", "t", "e", "n", "s", "i", "o", "n">>
priority_over ==
    <<"H", "a", "s", " ", "p", "r", "i", "o", "r", "i", "t", "y", " ", "o", "v", "e", "r">>
MIME == <<"M", "I", "M", "E">>
PUID == <<"P", "U", "I", "D">>

\* ------------------------------------------------------------- extraction
_get_node_value(tag, node) ==
    IF node[tag] = Missing THEN Ok(None)
    ELSE IF node[tag] = NoChild THEN Raise("AttributeError")
    ELSE Ok(strip(node[tag]))

pre_process_signature(item) == replace(upper(strip(item)), " ", <<>>)

\* The values whose presence exempts a value from the length check.
length_exempt ==
    {<<"?", "?">>, <<"(">>, <<")">>, <<"|">>, <<"{">>, <<"}">>, <<":">>, <<"-">>,
     <<"[">>, <<"]">>, <<"*">>}

has_exempt(seq_value) == \E val \in length_exempt : In(val, seq_value)

\* The length check: TRUE when the value is rejected (the loop continues).
rejected_on_length(seq_value) ==
    ~has_exempt(seq_value) /\ Len(seq_value) % 2 # 0

\* if "&" in seq_value: seq_value = escape(seq_value)
escape_ampersand(seq_value) ==
    IF In(<<"&">>, seq_value) THEN escape(seq_value) ELSE seq_value

\* The value stored in the ByteSequence.
stored_value(seq_value) == escape_ampersand(pre_process_signature(seq_value))

position(pos_type) ==
    IF pos_type = BOF_XML THEN BOF
    ELSE IF pos_type = EOF_XML THEN EOF
    ELSE <<>>

Skip == [exc |-> "", keep |-> FALSE, item |-> None]
Stop(e) == [exc |-> e, keep |-> FALSE, item |-> None]
Keep(x) == [exc |-> "", keep |-> TRUE, item |-> x]

\* One iteration of the loop of get_bytes: [exc, keep, item].
get_bytes_item(byte_sequence) ==
    LET Body(seq_id, pos_type, min_off, max_off, loc, len, endian, seq_value, e) ==
            IF e # "" THEN Stop(e)
            ELSE IF seq_value.val = None THEN Stop("TypeError")
            ELSE IF rejected_on_length(seq_value.val) THEN Skip
            ELSE Keep([id |-> seq_id.val,
                       pos |-> position(pos_type.val),
                       min_off |-> min_off.val,
                       max_off |-> max_off.val,
                       endian |-> endian.val,
                       value |-> stored_value(seq_value.val)])
        Reads(seq_id, pos_type, min_off, max_off, loc, len, endian, seq_value) ==
            Body(seq_id, pos_type, min_off, max_off, loc, len, endian, seq_value,
                 FirstExc(<<seq_id, pos_type, min_off, max_off, loc, len, endian,
                            seq_value>>))
    IN Reads(_get_node_value("ByteSequenceID", byte_sequence),
             _get_node_value("PositionType", byte_sequence),
             _get_node_value("Offset", byte_sequence),
             _get_node_value("MaxOffset", byte_sequence),
             _get_node_value("IndirectOffsetLocation", byte_sequence),
             _get_node_value("IndirectOffsetLength", byte_sequence),
             _get_node_value("Endianness", byte_sequence),
             _get_node_value("ByteSequenceValue", byte_sequence))

\* A loop that appends the items its iterations keep, and ends at the first
\* exception: rs are the iterations' results, in order.
RECURSIVE Collect(_, _)
Collect(rs, list) ==
    IF rs = <<>> THEN Ok(list)
    ELSE IF Head(rs).exc # "" THEN Raise(Head(rs).exc)
    ELSE Collect(Tail(rs), IF Head(rs).keep THEN Append(list, Head(rs).item) ELSE list)

get_bytes(byte_sequences) ==
    Collect([i \in 1..Len(byte_sequences) |-> get_bytes_item(byte_sequences[i])], <<>>)

\* One iteration of the loop of get_internal: [exc, keep, item].
get_internal_item(internal) ==
    LET Body(sig_id, sig_name, note, sequences, e) ==
            IF e # "" THEN Stop(e)
            ELSE IF sequences.exc = "IndexError" THEN Skip
            ELSE IF sequences.exc # "" THEN Stop(sequences.exc)
            ELSE Keep([id |-> sig_id.val,
                       name |-> sig_name.val,
                       byte_sequences |-> sequences.val])
        Reads(sig_id, sig_name, note, sequences) ==
            Body(sig_id, sig_name, note, sequences, FirstExc(<<sig_id, sig_name, note>>))
    IN Reads(_get_node_value("SignatureID", internal),
             _get_node_value("SignatureName", internal),
             _get_node_value("SignatureNote", internal),
             get_bytes(internal.ByteSequence))

get_internal(internal_signatures) ==
    Collect([i \in 1..Len(internal_signatures) |->
                get_internal_item(internal_signatures[i])], <<>>)

get_external_item(external) ==
    LET Body(sig_id, sig, sig_type, e) ==
            IF e # "" THEN Stop(e)
            ELSE Keep([id |-> sig_id.val, signature |-> sig.val, type |-> sig_type.val])
        Reads(sig_id, sig, sig_type) ==
            Body(sig_id, sig, sig_type, FirstExc(<<sig_id, sig, sig_type>>))
    IN Reads(_get_node_value("ExternalSignatureID", external),
             _get_node_value("Signature", external),
             _get_node_value("SignatureType", external))

get_external(external_identifiers) ==
    Collect([i \in 1..Len(external_identifiers) |->
                get_external_item(external_identifiers[i])], <<>>)

\* One iteration of the loop of get_identifiers: [exc, val |-> [puid, mime]].
get_identifiers_item(identifier, so_far) ==
    LET Body(identifier_value, identifier_type, e) ==
            IF e # "" THEN Raise(e)
            ELSE Ok([puid |-> IF identifier_type.val = PUID
                              THEN identifier_value.val ELSE so_far.puid,
                     mime |-> IF identifier_type.val = MIME
                              THEN identifier_value.val ELSE so_far.mime])
        Reads(identifier_value, identifier_type) ==
            Body(identifier_value, identifier_type,
                 FirstExc(<<identifier_value, identifier_type>>))
    IN Reads(_get_node_value("Identifier", identifier),
             _get_node_value("IdentifierType", identifier))

RECURSIVE get_identifiers_loop(_, _)
get_identifiers_loop(identifiers, so_far) ==
    IF so_far.exc # "" \/ identifiers = <<>> THEN so_far
    ELSE get_identifiers_loop(Tail(identifiers),
                              get_identifiers_item(Head(identifiers), so_far.val))

get_identifiers(identifiers) ==
    get_identifiers_loop(identifiers, Ok([puid |-> <<>>, mime |-> <<>>]))

\* The test that lets every relationship with a type through.
not_priority_absent(rel_type) == rel_type = None

\* if rel_type != priority_over: continue
not_priority(rel_type) == rel_type # priority_over

\* One iteration of the loop of get_priorities: [exc, keep, item].
get_priorities_item(related) ==
    LET Body(rel_type, rel_format_id, rel_name, rel_version) ==
            IF rel_type.exc # "" THEN Stop(rel_type.exc)
            ELSE IF not_priority(rel_type.val) THEN Skip
            ELSE IF FirstExc(<<rel_format_id, rel_name, rel_version>>) # ""
            THEN Stop(FirstExc(<<rel_format_id, rel_name, rel_version>>))
            ELSE Keep([type |-> rel_type.val, id |-> rel_format_id.val])
    IN Body(_get_node_value("RelationshipType", related),
            _get_node_value("RelatedFormatID", related),
            _get_node_value("RelatedFormatName", related),
            _get_node_value("RelatedFormatVersion", related))

get_priorities(relationships) ==
    Collect([i \in 1..Len(relationships) |-> get_priorities_item(relationships[i])], <<>>)

\* escape(x) of a value that may be None: None has no replace().
escape_call(x) == IF x = None THEN Raise("AttributeError") ELSE Ok(escape(x))

\* The test with the external signatures left out.
no_internal_signatures(external_signatures, internal_signatures) ==
    internal_signatures = <<>>

\* if not external_signatures and not internal_signatures: continue
no_signatures(external_signatures, internal_signatures) ==
    external_signatures = <<>> /\ internal_signatures = <<>>

\* One iteration of the loop of process_pronom: [exc, keep, item].
process_report(dom) ==
    LET Build(format_id, external_signatures, internal_signatures, ids,
              format_types, priorities, name, version, e) ==
            IF e # "" THEN Stop(e)
            ELSE Keep([id |-> format_id.val,
                       name |-> name.val,
                       version |-> version.val,
                       puid |-> ids.val.puid,
                       mime |-> ids.val.mime,
                       classification |-> format_types.val,
                       external_signatures |-> external_signatures.val,
                       internal_signatures |-> internal_signatures.val,
                       priorities |-> priorities.val])
        Rest(format_id, format_name, format_version, external_signatures,
             internal_signatures, ids, format_types, priorities, name, version) ==
            Build(format_id, external_signatures, internal_signatures, ids,
                  format_types, priorities, name, version,
                  FirstExc(<<format_types, priorities, name, version>>))
        Body(format_id, format_name, format_version, external_signatures,
             internal_signatures, ids, e) ==
            IF e # "" THEN Stop(e)
            ELSE IF no_signatures(external_signatures.val, internal_signatures.val)
            THEN Skip
            ELSE Rest(format_id, format_name, format_version, external_signatures,
                      internal_signatures, ids,
                      _get_node_value("FormatTypes", dom),
                      get_priorities(dom.RelatedFormat),
                      escape_call(format_name.val),
                      escape_call(format_version.val))
        Reads(format_id, format_name, format_version, external_signatures,
              internal_signatures, ids) ==
            Body(format_id, format_name, format_version, external_signatures,
                 internal_signatures, ids,
                 FirstExc(<<format_id, format_name, format_version,
                            external_signatures, internal_signatures, ids>>))
    IN Reads(_get_node_value("FormatID", dom),
             _get_node_value("FormatName", dom),
             _get_node_value("FormatVersion", dom),
             get_external(dom.ExternalSignature),
             get_internal(dom.InternalSignature),
             get_identifiers(dom.FileFormatIdentifier))

\* ------------------------------------------------------------- encoding
\* int(x): None is no number, and neither is a text with a non-digit.
int_call(x) ==
    IF x = None THEN Raise("TypeError")
    ELSE IF x = <<>> \/ \E i \in 1..Len(x) : \A d \in 1..10 : Digits[d] # x[i]
    THEN Raise("ValueError")
    ELSE Ok(int(x))

\* off != "" and int(off) > 0
off_positive(off) ==
    LET Body(n) == IF n.exc # "" THEN Raise(n.exc) ELSE Ok(n.val > 0)
    IN IF off = <<>> THEN Ok(FALSE) ELSE Body(int_call(off))

\* The quantifier with max in place of min + max.
variable_off_no_sum(item) ==
    LET Body(min, max) ==
            IF min.exc # "" THEN Raise(min.exc)
            ELSE IF max.exc # "" THEN Raise(max.exc)
            ELSE IF min.val /\ max.val
            THEN Ok(<<"{">> \o item.min_off \o <<"-">> \o item.max_off \o <<"}">>)
            ELSE IF max.val THEN Ok(<<"{", "0", "-">> \o item.max_off \o <<"}">>)
            ELSE IF min.val THEN Ok(<<"{">> \o item.min_off \o <<"}">>)
            ELSE Ok(<<>>)
    IN Body(off_positive(item.min_off), off_positive(item.max_off))

\* The quantifier both calculate_variable_off_* build, "" when none applies.
variable_off(item) ==
    LET Body(min, max) ==
            IF min.exc # "" THEN Raise(min.exc)
            ELSE IF max.exc # "" THEN Raise(max.exc)
            ELSE IF min.val /\ max.val
            THEN Ok(<<"{">> \o item.min_off \o <<"-">>
                    \o str(int(item.min_off) + int(item.max_off)) \o <<"}">>)
            ELSE IF max.val THEN Ok(<<"{", "0", "-">> \o item.max_off \o <<"}">>)
            ELSE IF min.val THEN Ok(<<"{">> \o item.min_off \o <<"}">>)
            ELSE Ok(<<>>)
    IN Body(off_positive(item.min_off), off_positive(item.max_off))

calculate_variable_off_bof(item) ==
    LET Body(q) == IF q.exc # "" THEN Raise(q.exc) ELSE Ok(q.val \o item.value)
    IN Body(variable_off(item))

calculate_variable_off_eof(item) ==
    LET Body(q) == IF q.exc # "" THEN Raise(q.exc) ELSE Ok(item.value \o q.val)
    IN Body(variable_off(item))

\* One iteration of the loop of create_one_to_many_byte_sequence: the element.
byte_sequence_element(item) ==
    LET Body(seq) ==
            IF seq.exc # "" THEN Stop(seq.exc)
            ELSE Keep([Reference |-> item.pos,
                       Sequence |-> seq.val,
                       MinOffset |-> fstr(item.min_off),
                       MaxOffset |-> fstr(item.max_off)])
    IN Body(IF startswith(item.pos, <<"E", "O", "F">>)
            THEN calculate_variable_off_eof(item)
            ELSE IF startswith(item.pos, <<"B", "O", "F">>)
            THEN calculate_variable_off_bof(item)
            ELSE Ok(item.value))

create_one_to_many_byte_sequence(byte_sequences) ==
    Collect([i \in 1..Len(byte_sequences) |-> byte_sequence_element(byte_sequences[i])],
            <<>>)

\* One iteration of the loop of create_many_to_one_byte_sequence: the element.
internal_signature_element(internal) ==
    LET Body(bs) ==
            IF bs.exc # "" THEN Stop(bs.exc)
            ELSE Keep([ID |-> fstr(internal.id),
                       Specificity |-> "Specific",
                       ByteSequence |-> bs.val])
    IN Body(create_one_to_many_byte_sequence(internal.byte_sequences))

create_many_to_one_byte_sequence(internal_signatures) ==
    Collect([i \in 1..Len(internal_signatures) |->
                internal_signature_element(internal_signatures[i])], <<>>)

\* The filter that lets every external signature through.
is_extension_any(sig) == TRUE

\* if sig.type == EXT
is_extension(sig) == sig.type = EXT

create_file_format_collection(fmt) ==
    LET IsExt(sig) == is_extension(sig)
        Extensions(sigs) == [i \in 1..Len(sigs) |-> fstr(sigs[i].signature)]
    IN [ID |-> fstr(fmt.id),
        Name |-> fstr(fmt.name),
        PUID |-> fstr(fmt.puid),
        Version |-> fstr(fmt.version),
        MIMEType |-> fstr(fmt.mime),
        InternalSignatureID |->
            [i \in 1..Len(fmt.internal_signatures) |-> fstr(fmt.internal_signatures[i].id)],
        Extension |-> Extensions(SelectSeq(fmt.external_signatures, IsExt)),
        HasPriorityOverFileFormatID |->
            [i \in 1..Len(fmt.priorities) |-> fstr(fmt.priorities[i].id)]]

\* One iteration of the loop of process_formats_and_save: what it appends to isc.
isc_group(fmt) ==
    LET Body(group) == IF group.exc # "" THEN Stop(group.exc) ELSE Keep(group.val)
    IN IF fmt.internal_signatures # <<>>
       THEN Body(create_many_to_one_byte_sequence(fmt.internal_signatures))
       ELSE Skip

\* The loop with each new FileFormat entry put before the earlier ones.
process_formats_and_save_prepend(fmts) ==
    LET Body(groups) ==
            IF groups.exc # "" THEN Raise(groups.exc)
            ELSE Ok([isc |-> groups.val,
                     ffc |-> [i \in 1..Len(fmts) |->
                                 create_file_format_collection(fmts[Len(fmts) + 1 - i])]])
    IN Body(Collect([i \in 1..Len(fmts) |-> isc_group(fmts[i])], <<>>))

\* The loop of process_formats_and_save: [exc, val |-> [isc, ffc]].
process_formats_and_save(fmts) ==
    LET Body(groups) ==
            IF groups.exc # "" THEN Raise(groups.exc)
            ELSE Ok([isc |-> groups.val,
                     ffc |-> [i \in 1..Len(fmts) |-> create_file_format_collection(fmts[i])]])
    IN Body(Collect([i \in 1..Len(fmts) |-> isc_group(fmts[i])], <<>>))

\* "".join(isc): the InternalSignature elements of the document, in order.
RECURSIVE join(_)
join(groups) == IF groups = <<>> THEN <<>> ELSE Head(groups) \o join(Tail(groups))

\* ------------------------------------------------------------- actions
\* The n-th report of a run carries FormatID n.
Numbered(report, n) == [report EXCEPT !.FormatID = str(n)]

Init ==
    /\ pc = "loop"
    /\ report_list = <<>>
    /\ formats = <<>>
    /\ isc = <<>>
    /\ ffc = <<>>
    /\ exc = ""

\* One iteration of the for loop of process_pronom, on a report of Reports.
ProcessReport(Reports) ==
    /\ pc = "loop"
    /\ Len(report_list) < MaxReports
    /\ \E report \in {Numbered(r, Len(report_list) + 1) : r \in Reports} :
          LET Body(r) ==
                  /\ report_list' = Append(report_list, report)
                  /\ IF r.exc # ""
                     THEN /\ pc' = "raised"
                          /\ exc' = r.exc
                          /\ UNCHANGED formats
                     ELSE /\ formats' = IF r.keep THEN Append(formats, r.item)
                                        ELSE formats
                          /\ UNCHANGED <<pc, exc>>
          IN Body(process_report(report))
    /\ UNCHANGED <<isc, ffc>>

\* The end of the loop: process_formats_and_save builds and writes the document.
Save ==
    /\ pc = "loop"
    /\ LET Body(r) ==
               IF r.exc # ""
               THEN /\ pc' = "raised"
                    /\ exc' = r.exc
                    /\ UNCHANGED <<isc, ffc>>
               ELSE /\ pc' = "done"
                    /\ isc' = r.val.isc
                    /\ ffc' = r.val.ffc
                    /\ UNCHANGED exc
       IN Body(process_formats_and_save(formats))
    /\ UNCHANGED <<report_list, formats>>

\* ------------------------------------------------------------- reports
Blank == <<" ">>

ByteNode(id, pos, off, max, value) ==
    [ByteSequenceID |-> id, PositionType |-> pos, Offset |-> off, MaxOffset |-> max,
     IndirectOffsetLocation |-> Blank, IndirectOffsetLength |-> Blank,
     Endianness |-> Blank, ByteSequenceValue |-> value]

InternalNode(id, byte_sequences) ==
    [SignatureID |-> id, SignatureName |-> <<"s">>, SignatureNote |-> Blank,
     ByteSequence |-> byte_sequences]

ExternalNode(id, sig, type) ==
    [ExternalSignatureID |-> id, Signature |-> sig, SignatureType |-> type]

RelatedNode(type, id) ==
    [RelationshipType |-> type, RelatedFormatID |-> id,
     RelatedFormatName |-> <<"r">>, RelatedFormatVersion |-> Blank]

Report(exts, ints, rels) ==
    [FormatID |-> <<"7">>, FormatName |-> <<"n">>, FormatVersion |-> <<"1">>,
     FormatTypes |-> <<"t">>,
     ExternalSignature |-> exts, InternalSignature |-> ints,
     FileFormatIdentifier |->
         <<[Identifier |-> <<"x", "/", "1">>, IdentifierType |-> PUID],
           [Identifier |-> <<"a", "/", "b">>, IdentifierType |-> MIME]>>,
     RelatedFormat |-> rels]

\* Runs that read a single report.
Single(Reports) == report_list = <<>> /\ ProcessReport(Reports)

\* --- get_bytes: every raw ByteSequenceValue up to MaxLen characters, alone or
\* --- beside a valid sequence.
Alphabet == {"4", "a", "Z", " ", "&", "?", "*", "!", "("}

RawValues ==
    UNION {[1..n -> Alphabet] : n \in 1..MaxLen} \cup {Missing, NoChild}

Probe(value) == ByteNode(<<"1">>, BOF_XML, <<"0">>, Blank, value)
Good == ByteNode(<<"2">>, BOF_XML, <<"0">>, Blank, <<"4", "a">>)

ReportsBytes ==
    {Report(<<>>, <<InternalNode(<<"1">>, bs)>>, <<>>) :
        bs \in UNION {{<<Probe(v)>>, <<Probe(v), Good>>, <<Good, Probe(v)>>} :
                         v \in RawValues}}

NextBytes == Single(ReportsBytes) \/ Save

SpecBytes == Init /\ [][NextBytes]_vars

\* --- spaced values: one byte sequence whose value has up to MaxSpaced characters
\* --- of hex digits, spaces and one operator, alone or before a valid sequence.
SpacedAlphabet == {"4", "a", " ", "("}

SpacedValues == UNION {[1..n -> SpacedAlphabet] : n \in 1..MaxSpaced}

ReportsSpaced ==
    {Report(<<>>, <<InternalNode(<<"1">>, bs)>>, <<>>) :
        bs \in UNION {{<<Probe(v)>>, <<Probe(v), Good>>} : v \in SpacedValues}}

NextSpaced == Single(ReportsSpaced) \/ Save

SpecSpaced == Init /\ [][NextSpaced]_vars

\* --- offsets: one byte sequence, every anchor and every pair of bounds of up to
\* --- MaxDigits digits, blank or missing.
OffsetDigits == {"0", "1", "9"}

OffsetTexts ==
    UNION {[1..n -> OffsetDigits] : n \in 1..MaxDigits} \cup {Blank, Missing}

PositionTexts == {BOF_XML, EOF_XML, <<"V", "a", "r">>, Missing}

ReportsOff ==
    {Report(<<>>,
            <<InternalNode(<<"1">>, <<ByteNode(<<"1">>, pos, off, max, <<"4", "a">>)>>)>>,
            <<>>) :
        pos \in PositionTexts, off \in OffsetTexts, max \in OffsetTexts}

NextOff == Single(ReportsOff) \/ Save

SpecOff == Init /\ [][NextOff]_vars

\* --- blocks: a report has no or MaxExt ExternalSignature blocks and up to MaxInt
\* --- InternalSignature blocks of MaxSeq byte sequences each; in at most one
\* --- block every sequence has an odd-length value, only the first has one, or
\* --- there is no sequence at all.
ExtNodes(n) ==
    [i \in 1..n |-> ExternalNode(str(i), <<"e", Digits[i + 1]>>, EXT)]

ByteNodes(p, kind) ==
    IF kind = "none" THEN <<>>
    ELSE [q \in 1..MaxSeq |->
             ByteNode(str(q), IF q = 1 THEN BOF_XML ELSE EOF_XML, <<"0">>, Blank,
                      IF kind = "odd" \/ (kind = "mixed" /\ q = 1)
                      THEN <<Digits[p + 1]>>
                      ELSE <<Digits[p + 1], Digits[q + 1]>>)]

IntNodes(n, bad, kind) ==
    [p \in 1..n |-> InternalNode(str(p), ByteNodes(p, IF p = bad THEN kind ELSE "ok"))]

BlockShapes ==
    {<<n, 0, "ok">> : n \in 0..MaxInt}
    \cup {<<n, bad, kind>> : n \in 1..MaxInt, bad \in 1..MaxInt, kind \in {"odd", "mixed", "none"}}

Reports ==
    {Report(ExtNodes(e), IntNodes(sh[1], sh[2], sh[3]), <<>>) :
        e \in {0, MaxExt}, sh \in {x \in BlockShapes : x[2] <= x[1]}}

Next == ProcessReport(Reports) \/ Save

Spec == Init /\ [][Next]_vars

\* --- formats: one report with up to MaxExt ExternalSignature blocks of any type,
\* --- up to MaxInt InternalSignature blocks and up to MaxRel RelatedFormat blocks
\* --- of any type.
lower_priority ==
    <<"H", "a", "s", " ", "l", "o", "w", "e", "r", " ", "p", "r", "i", "o", "r", "i", "t", "y",
      " ", "t", "h", "a", "n">>

SignatureTypes == {EXT, MIME, Missing}

RelationshipTypes == {priority_over, lower_priority, Missing}

TypeLists(types, max) == UNION {[1..n -> types] : n \in 0..max}

ReportsFormat ==
    {Report([i \in 1..Len(et) |-> ExternalNode(str(i), <<"e", Digits[i + 1]>>, et[i])],
            IntNodes(n, 0, "ok"),
            [i \in 1..Len(rt) |-> RelatedNode(rt[i], str(i))]) :
        et \in TypeLists(SignatureTypes, MaxExt),
        n \in 0..MaxInt,
        rt \in TypeLists(RelationshipTypes, MaxRel)}

NextFormat == Single(ReportsFormat) \/ Save

SpecFormat == Init /\ [][NextFormat]_vars

\* --- missing labels: one complete report from which up to MaxMissing labels
\* --- are absent.
Labels ==
    {"FormatID", "FormatName", "FormatVersion", "FormatTypes",
     "ExternalSignatureID", "Signature", "SignatureType",
     "SignatureID", "SignatureName", "SignatureNote",
     "ByteSequenceID", "PositionType", "Offset", "MaxOffset", "Endianness",
     "ByteSequenceValue", "Identifier", "IdentifierType",
     "RelationshipType", "RelatedFormatID"}

\* The node without the labels of gone that it has.
Without(node, gone) ==
    [tag \in DOMAIN node |-> IF tag \in gone THEN Missing ELSE node[tag]]

Complete(gone) ==
    Without(
        [FormatID |-> <<"7">>, FormatName |-> <<"n">>, FormatVersion |-> <<"1">>,
         FormatTypes |-> <<"t">>,
         ExternalSignature |->
             <<Without(ExternalNode(<<"1">>, <<"e">>, EXT), gone)>>,
         InternalSignature |->
             <<Without(
                 InternalNode(<<"1">>,
                     <<Without(ByteNode(<<"1">>, BOF_XML, <<"1">>, <<"9">>, <<"4", "a">>),
                               gone)>>),
                 gone)>>,
         FileFormatIdentifier |->
             <<Without([Identifier |-> <<"x", "/", "1">>, IdentifierType |-> PUID], gone)>>,
         RelatedFormat |-> <<Without(RelatedNode(priority_over, <<"2">>), gone)>>],
        gone)

ReportsMissing ==
    {Complete(gone) : gone \in {g \in SUBSET Labels : Cardinality(g) <= MaxMissing}}

NextMissing == Single(ReportsMissing) \/ Save

SpecMissing == Init /\ [][NextMissing]_vars

\* ------------------------------------------------------------- get_bytes claims
\* The run has read its report and nothing was raised.
Processed == report_list # <<>> /\ exc = ""

\* The byte sequences of the report's only InternalSignature block.
ByteBlocks == report_list[1].InternalSignature[1].ByteSequence

\* The sequence under test is the one with ByteSequenceID 1.
ProbeAt == CHOOSE i \in 1..Len(ByteBlocks) : ByteBlocks[i].ByteSequenceID = <<"1">>

\* Its value as get_bytes reads it.
ProbeRaw == strip(ByteBlocks[ProbeAt].ByteSequenceValue)

\* What get_bytes returned for the block.
Accepted == formats[1].internal_signatures[1].byte_sequences

Kept(id) == \E i \in 1..Len(Accepted) : Accepted[i].id = id

\* One of the pattern-control characters * [ ] ? ! & | ( ) { } : -
PatternControl(v) ==
    \E i \in 1..Len(v) :
        v[i] \in {"*", "[", "]", "?", "!", "&", "|", "(", ")", "{", "}", ":", "-"}

\* C2: every byte sequence get_bytes accepts has a raw value that passes the
\* allowed-character check: a value that fails the check is dropped.
C2_InvalidValueDropped ==
    Processed => (Kept(<<"1">>) => valid_sig(ProbeRaw))

\* The value get_bytes stored for the sequence under test.
ProbeStored == Accepted[CHOOSE i \in 1..Len(Accepted) : Accepted[i].id = <<"1">>].value

\* C3: a value that contains "&" is never dropped, whatever its length: nothing
\* is raised, the sequence is kept and its "&" is stored as "&amp;".
C3_AmpersandNeverDropped ==
    (report_list # <<>> /\ In(<<"&">>, ProbeRaw)) =>
        /\ exc = ""
        /\ Kept(<<"1">>)
        /\ In(<<"&", "a", "m", "p", ";">>, ProbeStored)

\* C10: a sequence is dropped if and only if its raw value has odd
\* length and none of the pattern-control characters * [ ] ? ! & | ( ) { } : -
C10_DroppedIffNoControlAndOdd ==
    Processed => (~Kept(<<"1">>) <=> (~PatternControl(ProbeRaw) /\ Len(ProbeRaw) % 2 = 1))

\* C11: an accepted value without a pattern-control character is stored with an
\* even length, and the parity of the raw value that the length check looked at
\* is the parity of the normalized value that is stored.
C11_StoredWholeBytes ==
    (Processed /\ Kept(<<"1">>) /\ ~PatternControl(ProbeStored)) =>
        /\ Len(ProbeStored) % 2 = 0
        /\ Len(ProbeRaw) % 2 = Len(ProbeStored) % 2

\* ------------------------------------------------------------- offset claim
\* The report's only byte sequence, and the element written for it.
OffNode == report_list[1].InternalSignature[1].ByteSequence[1]
OffElement == join(isc)[1].ByteSequence[1]

\* A bound that is there and greater than zero; a blank bound is not there.
BoundPositive(text) == text \notin {Blank, Missing} /\ int(text) > 0

\* The quantifier of the claim: {min-(min+max)}, {0-max}, {min} or nothing.
ClaimedQuantifier(min, max) ==
    IF BoundPositive(min) /\ BoundPositive(max)
    THEN <<"{">> \o min \o <<"-">> \o str(int(min) + int(max)) \o <<"}">>
    ELSE IF BoundPositive(max) THEN <<"{", "0", "-">> \o max \o <<"}">>
    ELSE IF BoundPositive(min) THEN <<"{">> \o min \o <<"}">>
    ELSE <<>>

\* C4: the Sequence written for a byte sequence is the value with the quantifier
\* of its bounds before it (anchor BOFoffset) or after it (anchor EOFoffset), and
\* the value alone for any other anchor.
C4_SequenceByAnchor ==
    (pc = "done" /\ report_list # <<>>) =>
        OffElement.Sequence =
            IF OffNode.PositionType = BOF_XML
            THEN ClaimedQuantifier(OffNode.Offset, OffNode.MaxOffset) \o <<"4", "A">>
            ELSE IF OffNode.PositionType = EOF_XML
            THEN <<"4", "A">> \o ClaimedQuantifier(OffNode.Offset, OffNode.MaxOffset)
            ELSE <<"4", "A">>

\* C4 witness: Offset 9 and MaxOffset 1 from BOF were written as {9-10}4A.
C4_Witness ==
    /\ pc = "done"
    /\ OffNode.PositionType = BOF_XML
    /\ OffNode.Offset = <<"9">> /\ OffNode.MaxOffset = <<"1">>
    /\ OffElement.Sequence = <<"{", "9", "-", "1", "0", "}", "4", "A">>
    /\ OffElement.Reference = BOF

\* ------------------------------------------------------------- run claims
HasBlock(report) == report.ExternalSignature # <<>> \/ report.InternalSignature # <<>>

\* C1: once process_pronom has written the document, the FileFormat entries
\* are those of the reports that have an ExternalSignature or InternalSignature
\* block, one each and no other.
C1_EntryPerReportWithBlock ==
    pc = "done" =>
        [i \in 1..Len(ffc) |-> ffc[i].ID]
            = [i \in 1..Len(SelectSeq(report_list, HasBlock)) |->
                  SelectSeq(report_list, HasBlock)[i].FormatID]

\* C1 witness: of two reports the first had no block and left no entry, the
\* second had only an InternalSignature block without an accepted sequence and
\* left one.
C1_Witness ==
    /\ pc = "done"
    /\ Len(report_list) = 2
    /\ ~HasBlock(report_list[1])
    /\ report_list[2].ExternalSignature = <<>>
    /\ Len(report_list[2].InternalSignature) = 1
    /\ Len(ffc) = 1 /\ ffc[1].ID = <<"2">>

\* An InternalSignature block with a byte sequence that validation accepts (the
\* values of these reports are hex digits: the odd-length ones are rejected).
Live(block) ==
    \E q \in 1..Len(block.ByteSequence) :
        Len(block.ByteSequence[q].ByteSequenceValue) % 2 = 0

\* C6: a block without an accepted byte sequence leaves no InternalSignature
\* entry and no InternalSignatureID, its siblings keep theirs, and a report left
\* without any signature leaves no FileFormat entry.
C6_EmptyBlockDropped ==
    pc = "done" =>
        LET Left(report) ==
                report.ExternalSignature # <<>>
                \/ \E p \in 1..Len(report.InternalSignature) :
                      Live(report.InternalSignature[p])
            kept == SelectSeq(report_list, Left)
        IN /\ Len(ffc) = Len(kept)
           /\ \A i \in 1..Len(join(isc)) : join(isc)[i].ByteSequence # <<>>
           /\ \A i \in 1..Len(ffc) :
                 ffc[i].InternalSignatureID =
                     LET live == SelectSeq(kept[i].InternalSignature, Live)
                     IN [p \in 1..Len(live) |-> live[p].SignatureID]

\* The InternalSignature entries the formats call for: per format, per internal
\* signature, the ID and the byte sequences' anchors and values in their order.
RECURSIVE OwnedSignatures(_)
OwnedSignatures(fmts) ==
    IF fmts = <<>> THEN <<>>
    ELSE [p \in 1..Len(Head(fmts).internal_signatures) |->
             [ID |-> Head(fmts).internal_signatures[p].id,
              ByteSequence |->
                  [q \in 1..Len(Head(fmts).internal_signatures[p].byte_sequences) |->
                      <<Head(fmts).internal_signatures[p].byte_sequences[q].pos,
                        Head(fmts).internal_signatures[p].byte_sequences[q].value>>]]]
         \o OwnedSignatures(Tail(fmts))

\* C8: the FileFormat entries are in the order of the Format records, and the
\* InternalSignature entries are the records' internal signatures in record
\* order, then signature order, each with its byte sequences in their order.
C8_RecordOrderKept ==
    pc = "done" =>
        /\ [i \in 1..Len(ffc) |-> ffc[i].ID] = [i \in 1..Len(formats) |-> formats[i].id]
        /\ [i \in 1..Len(join(isc)) |->
               [ID |-> join(isc)[i].ID,
                ByteSequence |->
                    [q \in 1..Len(join(isc)[i].ByteSequence) |->
                        <<join(isc)[i].ByteSequence[q].Reference,
                          join(isc)[i].ByteSequence[q].Sequence>>]]]
             = OwnedSignatures(formats)

\* C8 witness: two formats were written, the first with two internal signatures
\* of two byte sequences each, the second with one.
C8_Witness ==
    /\ pc = "done"
    /\ Len(formats) = 2 /\ Len(ffc) = 2
    /\ Len(formats[1].internal_signatures) = 2
    /\ Len(formats[1].internal_signatures[1].byte_sequences) = 2
    /\ Len(formats[2].internal_signatures) = 1
    /\ Len(join(isc)) = 3
    /\ Len(join(isc)[2].ByteSequence) = 2
    /\ join(isc)[2].ByteSequence[2].Sequence = <<"2", "2">>

\* ------------------------------------------------------------- format claims
\* The ids of the report's RelatedFormat blocks of type "Has priority over".
PriorityBlocks(report) ==
    LET IsOver(related) == related.RelationshipType = priority_over
    IN [i \in 1..Len(SelectSeq(report.RelatedFormat, IsOver)) |->
           SelectSeq(report.RelatedFormat, IsOver)[i].RelatedFormatID]

\* The HasPriorityOverFileFormatID references of the document.
RECURSIVE PriorityReferences(_)
PriorityReferences(entries) ==
    IF entries = <<>> THEN <<>>
    ELSE Head(entries).HasPriorityOverFileFormatID \o PriorityReferences(Tail(entries))

\* C7, as claimed: for every report, the references written are those of its
\* blocks of type "Has priority over", one each, in source order.
C7_ReferencePerPriorityBlock ==
    (pc = "done" /\ report_list # <<>>) =>
        PriorityReferences(ffc) = PriorityBlocks(report_list[1])

\* C7, amended: for every report that leaves a FileFormat entry (it has an
\* ExternalSignature or InternalSignature block), the references of the entry are
\* those of its blocks of type "Has priority over", one each, in source order,
\* and none for a block of another or no type; a report without such a block
\* leaves no entry and so no reference.
C7_ReferencePerPriorityBlockOfKeptReport ==
    (pc = "done" /\ report_list # <<>>) =>
        IF HasBlock(report_list[1])
        THEN /\ Len(ffc) = 1
             /\ ffc[1].HasPriorityOverFileFormatID = PriorityBlocks(report_list[1])
        ELSE ffc = <<>>

\* C7 witness: of the blocks "Has lower priority than" 1 and "Has priority over"
\* 2 of a report with a signature, only 2 was written.
C7_Witness ==
    /\ pc = "done" /\ report_list # <<>>
    /\ HasBlock(report_list[1])
    /\ Len(report_list[1].RelatedFormat) = 2
    /\ report_list[1].RelatedFormat[1].RelationshipType = lower_priority
    /\ report_list[1].RelatedFormat[2].RelationshipType = priority_over
    /\ Len(ffc) = 1
    /\ ffc[1].HasPriorityOverFileFormatID = <<<<"2">>>>

\* C9: the FileFormat entry of a format has one InternalSignatureID per internal
\* signature, one Extension per external signature of type "File extension" and
\* none for another type, and one HasPriorityOverFileFormatID per priority.
C9_EntryChildren ==
    pc = "done" =>
        \A i \in 1..Len(formats) :
            LET fmt == formats[i]
                extensions == {j \in 1..Len(fmt.external_signatures) :
                                  fmt.external_signatures[j].type = EXT}
            IN /\ Len(ffc) = Len(formats)
               /\ ffc[i].InternalSignatureID =
                      [j \in 1..Len(fmt.internal_signatures) |-> fmt.internal_signatures[j].id]
               /\ Len(ffc[i].Extension) = Cardinality(extensions)
               /\ \A k \in 1..Len(ffc[i].Extension) :
                      \E j \in extensions :
                          /\ ffc[i].Extension[k] = fmt.external_signatures[j].signature
                          /\ Cardinality({x \in extensions : x < j}) = k - 1
               /\ ffc[i].HasPriorityOverFileFormatID =
                      [j \in 1..Len(fmt.priorities) |-> fmt.priorities[j].id]

\* C9 witness: a format with an external signature of another type, two
\* internal signatures and a priority has an entry without Extension, with two
\* InternalSignatureID and one HasPriorityOverFileFormatID.
C9_Witness ==
    /\ pc = "done"
    /\ Len(formats) = 1 /\ Len(ffc) = 1
    /\ Len(formats[1].external_signatures) = 1
    /\ formats[1].external_signatures[1].type = MIME
    /\ ffc[1].Extension = <<>>
    /\ Len(ffc[1].InternalSignatureID) = 2
    /\ Len(ffc[1].HasPriorityOverFileFormatID) = 1

\* ------------------------------------------------------------- missing labels
\* C5: a report from which a label is absent is processed to the end: nothing
\* is raised and the document is written.
C5_MissingLabelTolerated ==
    report_list # <<>> => exc = ""

====
